---- MODULE Spec2Model ----
(***************************************************************************)
(* Payment-check scheduler, chat registry, reconciliation tick and the     *)
(* bulk-eviction loop of telegram_payment_bot.                             *)
(*                                                                         *)
(* The command handlers (command/commands.py), the list container          *)
(* (utils/wrapped_list.py) and the periodic task body                      *)
(* (payments_periodic_checker.py) are modelled from their code.  The       *)
(* scheduler object the handlers call (payment/payments_check_scheduler)   *)
(* and the member-kicking primitive (member/members_kicker) are not part   *)
(* of the sources at hand: they are modelled from the specification.       *)
(***************************************************************************)
EXTENDS Integers, Sequences, FiniteSets

\* ---------------------------------------------------------------- bounds
MaxPeriod == 2
NumChats == 2
MaxMembers == 6
MaxCap == 3
MaxToggles == 2
MaxExpired == 2
MaxCalls == 2

ChatIds == 1..NumChats
\* threads calling the operations of the scheduler at the same time
Callers == {"c1", "c2"}
NoOwner == "none"
\* period arguments a caller may supply: negative, zero and valid ones
PeriodArgs == (0 - 1)..MaxPeriod
\* upper limit on primitive calls of one eviction run; a run over M members
\* with cap >= 1 needs at most M + 1 calls, so the limit never binds unless
\* the test-mode flag is toggled while the loop runs
MaxPasses == MaxMembers + 2

VARIABLES
    status,               \* scheduler: "Stopped" | "Running"
    period,               \* scheduler: <<>> (absent) or <<p>>
    jobs,                 \* periodic jobs held by the timer, one period each
    chats,                \* ChatRegistry: list_elements of a WrappedList
    cmd_data,             \* data of the command executed last
    reply,                \* message sent last by a command (_SendMessage)
    tickPc,               \* periodic task: "idle" | "run"
    tickIdx,              \* periodic task: position of the for-loop iterator
    tickLog,              \* periodic task: its log records, <<chat, kicked count>>
    expired,              \* members with an expired payment, counted per chat
    infoPc,               \* task-info command: number of observer calls made
    info,                 \* task-info command: its locals
    evPc,                 \* remove command: "idle" | "call" | "check" | "report" | "done"
    members,              \* matching members still in the command's chat
    cap,                  \* platform cap on removals per primitive call
    test_mode,            \* configuration flag APP_TEST_MODE
    finished,             \* remove command: local of the loop
    kicked_members,       \* remove command: accumulated result
    curr_kicked_members,  \* remove command: output of the last pass
    passLog,              \* outputs of the primitive calls made, in call order
    members0,             \* matching members when the remove command began
    modeOn,               \* the run has seen test mode on
    modeOff,              \* the run has seen test mode off
    toggles,              \* SetTestModeCmd commands handled during the run
    raised,               \* a pass of the run has raised PlatformError
    lock,                 \* scheduler lock: its holder, or NoOwner
    calls                 \* calls of scheduler operations in progress, per caller

schedVars == <<status, period, jobs>>
tickVars == <<tickPc, tickIdx, tickLog, expired>>
infoVars == <<infoPc, info>>
concVars == <<lock, calls>>
evVars == <<evPc, members, cap, finished, kicked_members,
            curr_kicked_members, passLog, members0, modeOn, modeOff,
            raised>>
vars == <<status, period, jobs, chats, cmd_data, reply, expired,
          tickPc, tickIdx,
          tickLog, infoPc, info, evPc, members, cap, test_mode, finished,
          kicked_members, curr_kicked_members, passLog, members0, modeOn,
          modeOff, toggles, raised, lock, calls>>

Min(a, b) == IF a <= b THEN a ELSE b

\* a caller that has no call in progress and has made n calls
CallRecord(pc, name, arg, n) ==
    [pc |-> pc, name |-> name, arg |-> arg, seen |-> "", res |-> "", n |-> n]

NoCall == CallRecord("idle", "", 0, 0)

\* ------------------------------------------------- utils/wrapped_list.py
AddSingle(list_elements, element) == Append(list_elements, element)

\* mutant: the new elements are put in front of the list
AddMultipleFront(list_elements, elements) == elements \o list_elements

AddMultiple(list_elements, elements) == list_elements \o elements

IsElem(list_elements, element) ==
    \E i \in 1..Len(list_elements) : list_elements[i] = element

\* mutant: the last element is removed, whatever the element asked for
RemoveLast(list_elements, element) ==
    IF list_elements = <<>> THEN <<>>
    ELSE SubSeq(list_elements, 1, Len(list_elements) - 1)

RECURSIVE RemoveSingle(_, _)
\* list.remove: drops the first occurrence; on an absent element Python
\* raises ValueError and the list is left as it was
RemoveSingle(list_elements, element) ==
    IF list_elements = <<>> THEN <<>>
    ELSE IF Head(list_elements) = element THEN Tail(list_elements)
    ELSE <<Head(list_elements)>> \o RemoveSingle(Tail(list_elements), element)

Clear(list_elements) == <<>>

Count(list_elements) == Len(list_elements)

Any(list_elements) == Count(list_elements) > 0

\* ------------------------------------------------------------- messages
Msg(name, args) == [msg |-> name, args |-> args]

\* params: the command's parameters; chat: <<>> when the handler does not
\* read the chat, else <<chat id, is private chat>>
CmdData(name, params, chat) ==
    [name |-> name, params |-> params, chat |-> chat]

\* ------------------------------------ scheduler (from the specification)
IsRunning == status = "Running"

GetPeriod == period

GetChats == chats

\* Start(period): the outcome and the effect on the scheduler state.  The
\* specification names both errors for a non-positive period given to a
\* running scheduler without ordering the two checks: either may be raised.
Start(period_hours, outcome) ==
    \/ /\ period_hours <= 0
       /\ outcome = "InvalidPeriodError"
       /\ UNCHANGED schedVars
    \/ /\ status = "Running"
       /\ outcome = "AlreadyRunningError"
       /\ UNCHANGED schedVars
    \/ /\ period_hours > 0
       /\ status = "Stopped"
       /\ outcome = "ok"
       /\ status' = "Running"
       /\ period' = <<period_hours>>
       /\ jobs' = Append(jobs, period_hours)

\* mutant: Stop cancels the timer and leaves the period set
StopKeepsPeriod(outcome) ==
    \/ /\ status # "Running"
       /\ outcome = "NotRunningError"
       /\ UNCHANGED schedVars
    \/ /\ status = "Running"
       /\ outcome = "ok"
       /\ status' = "Stopped"
       /\ jobs' = <<>>
       /\ UNCHANGED period

\* Stop(): cancels the periodic timer and resets the state in one step
Stop(outcome) ==
    \/ /\ status # "Running"
       /\ outcome = "NotRunningError"
       /\ UNCHANGED schedVars
    \/ /\ status = "Running"
       /\ outcome = "ok"
       /\ status' = "Stopped"
       /\ period' = <<>>
       /\ jobs' = <<>>

AddChat(chat, outcome) ==
    \/ /\ IsElem(chats, chat)
       /\ outcome = "ChatAlreadyPresentError"
       /\ UNCHANGED chats
    \/ /\ ~IsElem(chats, chat)
       /\ outcome = "ok"
       /\ chats' = AddSingle(chats, chat)

RemoveChat(chat, outcome) ==
    \/ /\ ~IsElem(chats, chat)
       /\ outcome = "ChatNotPresentError"
       /\ UNCHANGED chats
    \/ /\ IsElem(chats, chat)
       /\ outcome = "ok"
       /\ chats' = RemoveSingle(chats, chat)

RemoveAllChats == chats' = Clear(chats)

StartOutcomes == {"ok", "AlreadyRunningError", "InvalidPeriodError"}
StopOutcomes == {"ok", "NotRunningError"}
AddChatOutcomes == {"ok", "ChatAlreadyPresentError"}
RemoveChatOutcomes == {"ok", "ChatNotPresentError"}

\* -------------------------------------------------- command/commands.py
\* parameter lists a command may carry: none (GetAsInt raises
\* CommandParameterError) or one integer
StartParams == {<<>>} \cup {<<p>> : p \in PeriodArgs}

\* mutant: the two except clauses answer each other's error
StartReplyMixed(outcome, period_hours) ==
    CASE outcome = "ok" -> Msg("PAYMENT_TASK_START_OK_CMD", <<period_hours>>)
      [] outcome = "AlreadyRunningError" -> Msg("TASK_PERIOD_ERR_MSG", <<>>)
      [] outcome = "InvalidPeriodError" -> Msg("TASK_EXISTENT_ERR_MSG", <<>>)

\* the message PaymentTaskStartCmd sends for an outcome of Start
StartReply(outcome, period_hours) ==
    CASE outcome = "ok" -> Msg("PAYMENT_TASK_START_OK_CMD", <<period_hours>>)
      [] outcome = "AlreadyRunningError" -> Msg("TASK_EXISTENT_ERR_MSG", <<>>)
      [] outcome = "InvalidPeriodError" -> Msg("TASK_PERIOD_ERR_MSG", <<>>)

\* mutant: the scheduler is started with a fixed period of one hour, not
\* with the period of the command
PaymentTaskStartCmdFixedPeriod(params) ==
    /\ cmd_data' = CmdData("PaymentTaskStartCmd", params, <<>>)
    /\ IF params = <<>>
       THEN /\ reply' = Msg("PARAM_ERR_MSG", <<>>)
            /\ UNCHANGED schedVars
       ELSE \E outcome \in StartOutcomes :
                /\ Start(1, outcome)
                /\ reply' = StartReply(outcome, params[1])
    /\ UNCHANGED <<chats, test_mode, toggles>>
    /\ UNCHANGED <<tickVars, infoVars, evVars, concVars>>

PaymentTaskStartCmd(params) ==
    /\ cmd_data' = CmdData("PaymentTaskStartCmd", params, <<>>)
    /\ IF params = <<>>
       THEN /\ reply' = Msg("PARAM_ERR_MSG", <<>>)
            /\ UNCHANGED schedVars
       ELSE \E outcome \in StartOutcomes :
                /\ Start(params[1], outcome)
                /\ reply' = StartReply(outcome, params[1])
    /\ UNCHANGED <<chats, test_mode, toggles>>
    /\ UNCHANGED <<tickVars, infoVars, evVars, concVars>>

\* mutant: the except clause sends the message of the success
StopReplyAlwaysOk(outcome) == Msg("PAYMENT_TASK_STOP_OK_CMD", <<>>)

StopReply(outcome) ==
    CASE outcome = "ok" -> Msg("PAYMENT_TASK_STOP_OK_CMD", <<>>)
      [] outcome = "NotRunningError" -> Msg("TASK_NOT_EXISTENT_ERR_MSG", <<>>)

\* mutant: the stop command also empties the chat list
PaymentTaskStopCmdClearsChats ==
    /\ cmd_data' = CmdData("PaymentTaskStopCmd", <<>>, <<>>)
    /\ \E outcome \in StopOutcomes :
           /\ Stop(outcome)
           /\ reply' = StopReply(outcome)
    /\ chats' = Clear(chats)
    /\ UNCHANGED <<test_mode, toggles>>
    /\ UNCHANGED <<tickVars, infoVars, evVars, concVars>>

PaymentTaskStopCmd ==
    /\ cmd_data' = CmdData("PaymentTaskStopCmd", <<>>, <<>>)
    /\ \E outcome \in StopOutcomes :
           /\ Stop(outcome)
           /\ reply' = StopReply(outcome)
    /\ UNCHANGED <<chats, test_mode, toggles>>
    /\ UNCHANGED <<tickVars, infoVars, evVars, concVars>>

\* mutant: the except clause sends the message of the success
AddChatReplyAlwaysOk(outcome) == Msg("PAYMENT_TASK_ADD_CHAT_OK_CMD", <<>>)

AddChatReply(outcome) ==
    CASE outcome = "ok" -> Msg("PAYMENT_TASK_ADD_CHAT_OK_CMD", <<>>)
      [] outcome = "ChatAlreadyPresentError" ->
             Msg("PAYMENT_TASK_ADD_CHAT_ERR_CMD", <<>>)

\* GroupChatOnly: a command sent in a private chat is answered with an
\* error and its body is not run
PaymentTaskAddChatCmd(chat, private) ==
    /\ cmd_data' = CmdData("PaymentTaskAddChatCmd", <<>>, <<chat, private>>)
    /\ IF private
       THEN /\ reply' = Msg("GROUP_ONLY_ERR_MSG", <<>>)
            /\ UNCHANGED chats
       ELSE \E outcome \in AddChatOutcomes :
                /\ AddChat(chat, outcome)
                /\ reply' = AddChatReply(outcome)
    /\ UNCHANGED <<schedVars, test_mode, toggles>>
    /\ UNCHANGED <<tickVars, infoVars, evVars, concVars>>

RemoveChatReply(outcome) ==
    CASE outcome = "ok" -> Msg("PAYMENT_TASK_REMOVE_CHAT_OK_CMD", <<>>)
      [] outcome = "ChatNotPresentError" ->
             Msg("PAYMENT_TASK_REMOVE_CHAT_ERR_CMD", <<>>)

PaymentTaskRemoveChatCmd(chat, private) ==
    /\ cmd_data' = CmdData("PaymentTaskRemoveChatCmd", <<>>, <<chat, private>>)
    /\ IF private
       THEN /\ reply' = Msg("GROUP_ONLY_ERR_MSG", <<>>)
            /\ UNCHANGED chats
       ELSE \E outcome \in RemoveChatOutcomes :
                /\ RemoveChat(chat, outcome)
                /\ reply' = RemoveChatReply(outcome)
    /\ UNCHANGED <<schedVars, test_mode, toggles>>
    /\ UNCHANGED <<tickVars, infoVars, evVars, concVars>>

PaymentTaskRemoveAllChatsCmd ==
    /\ cmd_data' = CmdData("PaymentTaskRemoveAllChatsCmd", <<>>, <<>>)
    /\ RemoveAllChats
    /\ reply' = Msg("PAYMENT_TASK_REMOVE_ALL_CHATS_CMD", <<>>)
    /\ UNCHANGED <<schedVars, test_mode, toggles>>
    /\ UNCHANGED <<tickVars, infoVars, evVars, concVars>>

\* PaymentTaskInfoCmd makes three separate observer calls and then sends
\* one message built from what they returned
InfoNone == [is_running |-> FALSE, period |-> <<>>, chats |-> <<>>]

InfoIsRunning ==
    /\ infoPc = 0
    /\ infoPc' = 1
    /\ info' = [info EXCEPT !.is_running = IsRunning]
    /\ UNCHANGED <<schedVars, chats, cmd_data, reply, test_mode, toggles>>
    /\ UNCHANGED <<tickVars, evVars, concVars>>

InfoGetPeriod ==
    /\ infoPc = 1
    /\ infoPc' = 2
    /\ info' = [info EXCEPT !.period = GetPeriod]
    /\ UNCHANGED <<schedVars, chats, cmd_data, reply, test_mode, toggles>>
    /\ UNCHANGED <<tickVars, evVars, concVars>>

InfoGetChats ==
    /\ infoPc = 2
    /\ infoPc' = 3
    /\ info' = [info EXCEPT !.chats = GetChats]
    /\ UNCHANGED <<schedVars, chats, cmd_data, reply, test_mode, toggles>>
    /\ UNCHANGED <<tickVars, evVars, concVars>>

\* state, then the period only when is_running, then the chats only when any
InfoMessage(is_running, per, chs) ==
    Msg("PAYMENT_TASK_INFO_STATE_CMD",
        << IF is_running THEN "TASK_RUNNING_MSG" ELSE "TASK_STOPPED_MSG",
           IF is_running THEN <<per>> ELSE <<>>,
           IF Any(chs) THEN <<Count(chs), chs>> ELSE <<>> >>)

InfoSend ==
    /\ infoPc = 3
    /\ infoPc' = 0
    /\ cmd_data' = CmdData("PaymentTaskInfoCmd", <<>>, <<>>)
    /\ reply' = InfoMessage(info.is_running, info.period, info.chats)
    /\ info' = InfoNone
    /\ UNCHANGED <<schedVars, chats, test_mode, toggles>>
    /\ UNCHANGED <<tickVars, evVars, concVars>>

\* ------------------------------------------ payments_periodic_checker.py
\* The timer fires the task of a scheduled job; one run of a job at a time.
TickBegin ==
    /\ jobs # <<>>
    /\ tickPc = "idle"
    /\ tickPc' = "run"
    /\ tickIdx' = 1
    /\ tickLog' = <<>>
    /\ UNCHANGED <<schedVars, chats, cmd_data, reply, test_mode, toggles,
                   expired>>
    /\ UNCHANGED <<infoVars, evVars, concVars>>

\* the members kicked for one chat by the body of the for-loop: one call of
\* KickAllWithExpiredPayment, which kicks at most cap members
KickedInTick(count) == Min(cap, count)

\* mutant: the iteration takes the scheduler lock for its call of the
\* primitive and is in that call from then on
TickChatLocked ==
    /\ tickPc = "run"
    /\ tickIdx <= Len(chats)
    /\ lock = NoOwner
    /\ lock' = "tick"
    /\ UNCHANGED <<schedVars, chats, cmd_data, reply, test_mode, toggles>>
    /\ UNCHANGED <<tickVars, infoVars, evVars, calls>>

\* one iteration of the for-loop over the chat list: the iterator yields the
\* element at its position in the list as the list is now
TickChat ==
    /\ tickPc = "run"
    /\ tickIdx <= Len(chats)
    /\ LET chat_id == chats[tickIdx]
           kicked == KickedInTick(expired[chat_id])
       IN  /\ expired' = IF test_mode
                         THEN expired
                         ELSE [expired EXCEPT ![chat_id] = @ - kicked]
           /\ tickLog' = Append(tickLog, <<chat_id, kicked>>)
    /\ tickIdx' = tickIdx + 1
    /\ UNCHANGED <<tickPc, schedVars, chats, cmd_data, reply,
                   test_mode, toggles>>
    /\ UNCHANGED <<infoVars, evVars, concVars>>

\* where the task is after the call for a chat has raised: the for-loop has
\* no except clause, so the exception ends __PaymentsCheckTask
AfterChatError(idx) ==
    [pc |-> "idle", idx |-> 0, log |-> <<>>]

\* an iteration whose call of the primitive raises PlatformError, after it
\* has kicked some of the members of the pass
TickChatRaises ==
    /\ tickPc = "run"
    /\ tickIdx <= Len(chats)
    /\ LET chat_id == chats[tickIdx]
       IN  \E n \in 0..KickedInTick(expired[chat_id]) :
               expired' = IF test_mode
                          THEN expired
                          ELSE [expired EXCEPT ![chat_id] = @ - n]
    /\ LET after == AfterChatError(tickIdx)
       IN  /\ tickPc' = after.pc
           /\ tickIdx' = after.idx
           /\ tickLog' = after.log
    /\ UNCHANGED <<schedVars, chats, cmd_data, reply, test_mode, toggles>>
    /\ UNCHANGED <<infoVars, evVars, concVars>>

\* the iterator is exhausted: the task returns
TickEnd ==
    /\ tickPc = "run"
    /\ tickIdx > Len(chats)
    /\ tickPc' = "idle"
    /\ tickIdx' = 0
    /\ tickLog' = <<>>
    /\ UNCHANGED <<schedVars, chats, cmd_data, reply, test_mode, toggles,
                   expired>>
    /\ UNCHANGED <<infoVars, evVars, concVars>>

\* ------------------------------------------- the system of the scheduler
NoCmd == CmdData("", <<>>, <<>>)
NoMsg == Msg("", <<>>)

EvIdle ==
    /\ evPc = "idle"
    /\ members = <<>>
    /\ cap = 1
    /\ finished = FALSE
    /\ kicked_members = <<>>
    /\ curr_kicked_members = <<>>
    /\ passLog = <<>>
    /\ members0 = <<>>
    /\ modeOn = FALSE
    /\ modeOff = FALSE
    /\ raised = FALSE
    /\ lock = NoOwner
    /\ calls = [t \in Callers |-> NoCall]

Init ==
    /\ status = "Stopped"
    /\ period = <<>>
    /\ jobs = <<>>
    /\ chats = <<>>
    /\ cmd_data = NoCmd
    /\ reply = NoMsg
    /\ tickPc = "idle"
    /\ tickIdx = 0
    /\ tickLog = <<>>
    /\ expired = [c \in ChatIds |-> 0]
    /\ infoPc = 0
    /\ info = InfoNone
    /\ test_mode = FALSE
    /\ toggles = 0
    /\ EvIdle

Next ==
    \/ \E params \in StartParams : PaymentTaskStartCmd(params)
    \/ PaymentTaskStopCmd
    \/ \E chat \in ChatIds, private \in BOOLEAN :
           PaymentTaskAddChatCmd(chat, private)
    \/ \E chat \in ChatIds, private \in BOOLEAN :
           PaymentTaskRemoveChatCmd(chat, private)
    \/ PaymentTaskRemoveAllChatsCmd
    \/ TickBegin
    \/ TickChat
    \/ TickChatRaises
    \/ TickEnd

Spec == Init /\ [][Next]_vars

\* ---------------------- the scheduler over chats with members to evict
\* the same system, begun with members whose payment has expired in the
\* chats, a platform cap and either value of the test-mode flag
TickInit ==
    /\ status = "Stopped"
    /\ period = <<>>
    /\ jobs = <<>>
    /\ chats = <<>>
    /\ cmd_data = NoCmd
    /\ reply = NoMsg
    /\ tickPc = "idle"
    /\ tickIdx = 0
    /\ tickLog = <<>>
    /\ expired \in [ChatIds -> 0..MaxExpired]
    /\ infoPc = 0
    /\ info = InfoNone
    /\ test_mode \in BOOLEAN
    /\ toggles = 0
    /\ evPc = "idle"
    /\ members = <<>>
    /\ cap \in 1..MaxExpired
    /\ finished = FALSE
    /\ kicked_members = <<>>
    /\ curr_kicked_members = <<>>
    /\ passLog = <<>>
    /\ members0 = <<>>
    /\ modeOn = FALSE
    /\ modeOff = FALSE
    /\ raised = FALSE
    /\ lock = NoOwner
    /\ calls = [t \in Callers |-> NoCall]

TickSpec == TickInit /\ [][Next]_vars

\* ------------------------- the system of the scheduler and its observer
\* the task commands with the task-info command making its observer calls
\* in between
InfoNext ==
    \/ \E params \in StartParams : PaymentTaskStartCmd(params)
    \/ PaymentTaskStopCmd
    \/ \E chat \in ChatIds, private \in BOOLEAN :
           PaymentTaskAddChatCmd(chat, private)
    \/ \E chat \in ChatIds, private \in BOOLEAN :
           PaymentTaskRemoveChatCmd(chat, private)
    \/ PaymentTaskRemoveAllChatsCmd
    \/ InfoIsRunning
    \/ InfoGetPeriod
    \/ InfoGetChats
    \/ InfoSend

InfoSpec == Init /\ [][InfoNext]_vars

\* ------------------ calls of the scheduler from threads, under its lock
\* (from the specification: the operations are not in the sources)
\* mutant: the operations do not wait for the lock
LockIgnored(holder) == TRUE

\* the lock can be taken
LockFree(holder) == holder = NoOwner

\* Start(period_hours) as its write under the lock, given the status it read
StartLocked(seen, period_hours, outcome) ==
    \/ /\ period_hours <= 0
       /\ outcome = "InvalidPeriodError"
       /\ UNCHANGED schedVars
    \/ /\ seen = "Running"
       /\ outcome = "AlreadyRunningError"
       /\ UNCHANGED schedVars
    \/ /\ period_hours > 0
       /\ seen = "Stopped"
       /\ outcome = "ok"
       /\ status' = "Running"
       /\ period' = <<period_hours>>
       /\ jobs' = Append(jobs, period_hours)

\* Stop() as its write under the lock, given the status it read
StopLocked(seen, outcome) ==
    \/ /\ seen # "Running"
       /\ outcome = "NotRunningError"
       /\ UNCHANGED schedVars
    \/ /\ seen = "Running"
       /\ outcome = "ok"
       /\ status' = "Stopped"
       /\ period' = <<>>
       /\ jobs' = <<>>

\* the calls a thread may make; Start with a period that is not valid and
\* with one that is
CallOps ==
    {<<"Start", p>> : p \in {0, MaxPeriod}} \cup {<<"Stop", 0>>}
    \cup {<<"AddChat", c>> : c \in ChatIds}
    \cup {<<"RemoveAllChats", 0>>}

\* a thread calls an operation of the scheduler
CallBegin(t, op) ==
    /\ calls[t].pc = "idle"
    /\ calls[t].n < MaxCalls
    /\ calls' = [calls EXCEPT
                   ![t] = CallRecord("acquire", op[1], op[2], @.n + 1)]
    /\ UNCHANGED <<schedVars, chats, cmd_data, reply, test_mode, toggles,
                   lock>>
    /\ UNCHANGED <<tickVars, infoVars, evVars>>

LockAcquire(t) ==
    /\ calls[t].pc = "acquire"
    /\ LockFree(lock)
    /\ lock' = t
    /\ calls' = [calls EXCEPT ![t].pc = "read"]
    /\ UNCHANGED <<schedVars, chats, cmd_data, reply, test_mode, toggles>>
    /\ UNCHANGED <<tickVars, infoVars, evVars>>

\* the state read of the operation
StateRead(t) ==
    /\ calls[t].pc = "read"
    /\ calls' = [calls EXCEPT ![t].pc = "write", ![t].seen = status]
    /\ UNCHANGED <<schedVars, chats, cmd_data, reply, test_mode, toggles,
                   lock>>
    /\ UNCHANGED <<tickVars, infoVars, evVars>>

\* the state mutation of the operation, with its outcome
StateWrite(t) ==
    /\ calls[t].pc = "write"
    /\ \E outcome \in StartOutcomes \cup StopOutcomes \cup AddChatOutcomes :
          /\ CASE calls[t].name = "Start" ->
                      /\ StartLocked(calls[t].seen, calls[t].arg, outcome)
                      /\ UNCHANGED chats
               [] calls[t].name = "Stop" ->
                      /\ StopLocked(calls[t].seen, outcome)
                      /\ UNCHANGED chats
               [] calls[t].name = "AddChat" ->
                      /\ AddChat(calls[t].arg, outcome)
                      /\ UNCHANGED schedVars
               [] calls[t].name = "RemoveAllChats" ->
                      /\ RemoveAllChats
                      /\ outcome = "ok"
                      /\ UNCHANGED schedVars
          /\ calls' = [calls EXCEPT ![t].pc = "release", ![t].seen = "",
                                    ![t].res = outcome]
    /\ UNCHANGED <<cmd_data, reply, test_mode, toggles, lock>>
    /\ UNCHANGED <<tickVars, infoVars, evVars>>

\* the operation releases the lock and returns
LockRelease(t) ==
    /\ calls[t].pc = "release"
    /\ lock' = NoOwner
    /\ calls' = [calls EXCEPT ![t] = CallRecord("idle", "", 0, @.n)]
    /\ UNCHANGED <<schedVars, chats, cmd_data, reply, test_mode, toggles>>
    /\ UNCHANGED <<tickVars, infoVars, evVars>>

CallStep(t) ==
    \/ LockAcquire(t)
    \/ StateRead(t)
    \/ StateWrite(t)
    \/ LockRelease(t)

ConcNext ==
    \/ \E t \in Callers, op \in CallOps : CallBegin(t, op)
    \/ \E t \in Callers : LockAcquire(t)
    \/ \E t \in Callers : StateRead(t)
    \/ \E t \in Callers : StateWrite(t)
    \/ \E t \in Callers : LockRelease(t)
    \/ TickBegin
    \/ TickChat
    \/ TickChatRaises
    \/ TickEnd

\* the threads go on with the calls they have begun; nothing makes the
\* periodic task go on: it may stay in a call of the platform for ever
ConcSpec ==
    /\ Init
    /\ [][ConcNext]_vars
    /\ \A t \in Callers : WF_vars(CallStep(t))

\* ------------------------- member-kicking primitive (from the specification)
\* EvictOnePass: at most n of the matching members, in removal order
EvictOnePass(ms, n) == SubSeq(ms, 1, Min(n, Len(ms)))

\* what is left in the chat after a pass; in test mode nothing is removed
AfterPass(ms, n, simulation) ==
    IF simulation THEN ms ELSE SubSeq(ms, Min(n, Len(ms)) + 1, Len(ms))

\* one call of KickAllWithExpiredPayment / KickAllWithNoUsername on the
\* command's chat (commands.py line 504 / 273)
KickAll ==
    /\ evPc = "call"
    /\ Len(passLog) < MaxPasses
    /\ curr_kicked_members' = EvictOnePass(members, cap)
    /\ members' = AfterPass(members, cap, test_mode)
    /\ passLog' = Append(passLog, EvictOnePass(members, cap))
    /\ modeOn' = (modeOn \/ test_mode)
    /\ modeOff' = (modeOff \/ ~test_mode)
    /\ evPc' = "check"
    /\ UNCHANGED <<cap, finished, kicked_members, members0, raised>>
    /\ UNCHANGED <<schedVars, chats, cmd_data, reply, test_mode, toggles>>
    /\ UNCHANGED <<tickVars, infoVars, concVars>>

\* ------------------------- the loop of the remove commands (commands.py)
\* mutant: the loop catches the error of a pass and goes on to its report
OnPlatformErrorReport == "report"

\* where the handler is after a pass has raised: the loop has no except
\* clause, so the exception leaves _ExecuteCommand and nothing after the
\* call is run
OnPlatformError == "failed"

\* a call of the primitive that raises PlatformError, after it has removed
\* some of the members of the pass
KickAllRaises ==
    /\ evPc = "call"
    /\ Len(passLog) < MaxPasses
    /\ \E n \in 0..Min(cap, Len(members)) :
           members' = AfterPass(members, n, test_mode)
    /\ raised' = TRUE
    /\ evPc' = OnPlatformError
    /\ UNCHANGED <<cap, finished, kicked_members, curr_kicked_members,
                   passLog, members0, modeOn, modeOff>>
    /\ UNCHANGED <<schedVars, chats, cmd_data, reply, test_mode, toggles>>
    /\ UNCHANGED <<tickVars, infoVars, concVars>>

\* the accumulated result after a pass
Accumulate(kicked, curr) ==
    IF Any(curr) THEN AddMultiple(kicked, curr) ELSE kicked

\* mutant: the loop ends after any pass
FinishedAfterFirstPass(curr, flag) == TRUE

\* mutant: the test-mode flag is not consulted
FinishedIgnoresTestMode(curr, flag) == ~Any(curr)

\* mutant: the loop keeps the test-mode flag a call of the primitive has
\* seen on, and does not read it again
FinishedStaleFlag(curr, flag) == IF Any(curr) THEN modeOn ELSE TRUE

\* the loop variable after a pass: the test-mode flag as read now after a
\* pass that kicked somebody, TRUE after a pass that kicked nobody
Finished(curr, flag) == IF Any(curr) THEN flag ELSE TRUE

RemoveLoopStep ==
    /\ evPc = "check"
    /\ kicked_members' = Accumulate(kicked_members, curr_kicked_members)
    /\ finished' = Finished(curr_kicked_members, test_mode)
    /\ modeOn' = (modeOn \/ (Any(curr_kicked_members) /\ test_mode))
    /\ modeOff' = (modeOff \/ (Any(curr_kicked_members) /\ ~test_mode))
    /\ evPc' = IF finished' THEN "report" ELSE "call"
    /\ UNCHANGED <<members, cap, curr_kicked_members, passLog, members0,
                   raised>>
    /\ UNCHANGED <<schedVars, chats, cmd_data, reply, test_mode, toggles>>
    /\ UNCHANGED <<tickVars, infoVars, concVars>>

\* the completion message: the count, the list when any, and whether a new
\* invite link is generated
CompletedMessage(name, kicked) ==
    Msg(IF name = "RemoveNoPaymentCmd"
        THEN "REMOVE_NO_PAYMENT_COMPLETED_CMD"
        ELSE "REMOVE_NO_USERNAME_COMPLETED_CMD",
        << Count(kicked), IF Any(kicked) THEN kicked ELSE <<>>, Any(kicked) >>)

RemoveReport ==
    /\ evPc = "report"
    /\ reply' = CompletedMessage(cmd_data.name, kicked_members)
    /\ evPc' = "done"
    /\ UNCHANGED <<members, cap, finished, kicked_members,
                   curr_kicked_members, passLog, members0, modeOn, modeOff,
                   raised>>
    /\ UNCHANGED <<schedVars, chats, cmd_data, test_mode, toggles>>
    /\ UNCHANGED <<tickVars, infoVars, concVars>>

\* SetTestModeCmd, sent by an administrator while the loop of the remove
\* command runs: GetAsBool raises CommandParameterError on a missing
\* parameter; else the flag is stored and read back for the message
SetTestModeParams == {<<>>, <<TRUE>>, <<FALSE>>}

SetTestModeCmd(params) ==
    /\ evPc \in {"call", "check"}
    /\ toggles < MaxToggles
    /\ toggles' = toggles + 1
    /\ IF params = <<>>
       THEN /\ reply' = Msg("PARAM_ERR_MSG", <<>>)
            /\ UNCHANGED test_mode
       ELSE /\ test_mode' = params[1]
            /\ reply' = IF test_mode'
                        THEN Msg("SET_TEST_MODE_EN_CMD", <<>>)
                        ELSE Msg("SET_TEST_MODE_DIS_CMD", <<>>)
    /\ UNCHANGED <<schedVars, chats, cmd_data>>
    /\ UNCHANGED <<tickVars, infoVars, evVars, concVars>>

\* ------------------------------------------ the system of a remove command
\* The member identifiers are opaque to the loop, so one numbering per
\* order of the list stands for all: the members n, n-1, .., 1 in the order
\* the platform removes them, and that list begun at any of its positions.
Descending(n) == [i \in 1..n |-> n + 1 - i]

Rotate(ms, k) == SubSeq(ms, k + 1, Len(ms)) \o SubSeq(ms, 1, k)

\* the lists of matching members a chat may hold when the command begins
MemberLists ==
    UNION { { Rotate(Descending(n), k) : k \in 0..n } : n \in 0..MaxMembers }

RemoveCmds == {"RemoveNoPaymentCmd", "RemoveNoUsernameCmd"}

\* a remove command sent in a group chat has sent its notice and is about to
\* enter its loop (finished = False, kicked_members empty)
EvInit ==
    /\ status = "Stopped"
    /\ period = <<>>
    /\ jobs = <<>>
    /\ chats = <<>>
    /\ \E name \in RemoveCmds : cmd_data = CmdData(name, <<>>, <<1, FALSE>>)
    /\ reply = Msg(IF cmd_data.name = "RemoveNoPaymentCmd"
                   THEN "REMOVE_NO_PAYMENT_NOTICE_CMD"
                   ELSE "REMOVE_NO_USERNAME_NOTICE_CMD", <<>>)
    /\ tickPc = "idle"
    /\ tickIdx = 0
    /\ tickLog = <<>>
    /\ expired = [c \in ChatIds |-> 0]
    /\ infoPc = 0
    /\ info = InfoNone
    /\ test_mode \in BOOLEAN
    /\ toggles = 0
    /\ evPc = "call"
    /\ members \in MemberLists
    /\ cap \in 1..MaxCap
    /\ finished = FALSE
    /\ kicked_members = <<>>
    /\ curr_kicked_members = <<>>
    /\ passLog = <<>>
    /\ members0 = members
    /\ modeOn = FALSE
    /\ modeOff = FALSE
    /\ raised = FALSE
    /\ lock = NoOwner
    /\ calls = [t \in Callers |-> NoCall]

EvNext ==
    \/ KickAll
    \/ RemoveLoopStep
    \/ RemoveReport
    \/ \E params \in SetTestModeParams : SetTestModeCmd(params)

\* the handler runs its loop to the end once it has begun
EvictSpec ==
    /\ EvInit
    /\ [][EvNext]_vars
    /\ WF_vars(KickAll)
    /\ WF_vars(RemoveLoopStep)
    /\ WF_vars(RemoveReport)

\* ------------------- a remove command run against a failing platform
EvErrNext ==
    \/ KickAll
    \/ KickAllRaises
    \/ RemoveLoopStep
    \/ RemoveReport
    \/ \E params \in SetTestModeParams : SetTestModeCmd(params)

EvictErrSpec == EvInit /\ [][EvErrNext]_vars

\* ------------------------------------------------------------- claims
CeilDiv(a, b) == (a + b - 1) \div b

NoDuplicates(list_elements) ==
    \A i, j \in 1..Len(list_elements) :
        list_elements[i] = list_elements[j] => i = j

Without(list_elements, element) ==
    SelectSeq(list_elements, LAMBDA x : x # element)

RECURSIVE Flatten(_)
Flatten(ss) == IF ss = <<>> THEN <<>> ELSE Head(ss) \o Flatten(Tail(ss))

\* C1: the start command with a period p > 0 on a stopped scheduler is
\* answered with the start-ok message for p, and right after it IsRunning
\* is true and GetPeriod is p, whatever was started and stopped before
StartOnStoppedSucceeds ==
    [][\A p \in 1..MaxPeriod :
           (status = "Stopped" /\ PaymentTaskStartCmd(<<p>>))
           => /\ reply' = Msg("PAYMENT_TASK_START_OK_CMD", <<p>>)
              /\ IsRunning'
              /\ GetPeriod' = <<p>>
              /\ jobs' = <<p>>]_vars

\* a start with period 2 has succeeded after a run with period 1 that the
\* task-info command had observed
StartOnStoppedSucceedsWitness ==
    /\ reply = Msg("PAYMENT_TASK_START_OK_CMD", <<2>>)
    /\ status = "Running"
    /\ period = <<2>>
    /\ infoPc = 2
    /\ info.period = <<1>>

\* C2: the start command with a period q > 0 on a running scheduler is
\* answered with the already-running message; status, period and the one
\* periodic job of the earlier start stay as they were
StartOnRunningFails ==
    [][\A q \in 1..MaxPeriod :
           (status = "Running" /\ PaymentTaskStartCmd(<<q>>))
           => /\ reply' = Msg("TASK_EXISTENT_ERR_MSG", <<>>)
              /\ status' = "Running"
              /\ GetPeriod' = GetPeriod
              /\ jobs' = jobs
              /\ jobs' = GetPeriod']_vars

StartOnRunningFailsWitness ==
    /\ reply = Msg("TASK_EXISTENT_ERR_MSG", <<>>)
    /\ cmd_data = CmdData("PaymentTaskStartCmd", <<2>>, <<>>)
    /\ status = "Running"
    /\ period = <<1>>
    /\ jobs = <<1>>

StopStopsTicks ==
    [][/\ PaymentTaskStopCmd
          => IF status = "Running"
             THEN /\ reply' = Msg("PAYMENT_TASK_STOP_OK_CMD", <<>>)
                  /\ status' = "Stopped"
                  /\ period' = <<>>
                  /\ jobs' = <<>>
             ELSE /\ reply' = Msg("TASK_NOT_EXISTENT_ERR_MSG", <<>>)
                  /\ UNCHANGED <<status, period, jobs>>
       /\ (tickPc = "idle" /\ tickPc' = "run") => status = "Running"]_vars

\* the scheduler was stopped while a run of the task was in progress, and
\* that run has ended since
StopStopsTicksWitness ==
    /\ reply = Msg("PAYMENT_TASK_STOP_OK_CMD", <<>>)
    /\ status = "Stopped"
    /\ period = <<>>
    /\ jobs = <<>>
    /\ tickPc = "idle"
    /\ chats # <<>>

\* C5: in every reachable state the period is present exactly when the
\* status is Running
PeriodIffRunning == (period # <<>>) <=> (status = "Running")

PeriodIffRunningWitness ==
    /\ status = "Running"
    /\ period = <<2>>
    /\ Len(chats) = 2
    /\ tickPc = "run"
    /\ tickIdx = 2
    /\ reply = Msg("PAYMENT_TASK_ADD_CHAT_OK_CMD", <<>>)

\* C6: the registry never holds a chat twice; the add-chat command for a
\* chat already present is answered with the already-present message and
\* leaves the registry as it was, although the list container would have
\* taken the duplicate
NoChatTwice ==
    /\ [](NoDuplicates(chats))
    /\ [][\A c \in ChatIds :
              (IsElem(chats, c) /\ PaymentTaskAddChatCmd(c, FALSE))
              => /\ reply' = Msg("PAYMENT_TASK_ADD_CHAT_ERR_CMD", <<>>)
                 /\ chats' = chats
                 /\ ~NoDuplicates(AddSingle(chats, c))]_vars

NoChatTwiceWitness ==
    /\ reply = Msg("PAYMENT_TASK_ADD_CHAT_ERR_CMD", <<>>)
    /\ cmd_data = CmdData("PaymentTaskAddChatCmd", <<>>, <<1, FALSE>>)
    /\ chats = <<1>>

EvictAllRemovesEveryMatch ==
    /\ [](evPc \in {"report", "done"} /\ ~modeOn
            => Count(kicked_members) = Len(members0) /\ members = <<>>)
    /\ <>(modeOn \/ evPc = "done")

\* a run over 2 * cap members has ended with test mode off
EvictAllRemovesEveryMatchWitness ==
    /\ evPc = "done"
    /\ ~modeOn
    /\ cap = 3
    /\ Len(members0) = 6
    /\ Count(kicked_members) = 6

\* C9: with test mode on throughout the run and matching members in the
\* chat, the primitive is called exactly once, the loop ends, and the
\* result is the output of that one pass; nothing is removed
SimulationOnePass ==
    /\ [](~modeOff /\ members0 # <<>>
            => /\ Len(passLog) <= 1
               /\ members = members0
               /\ evPc \in {"report", "done"}
                  => /\ Len(passLog) = 1
                     /\ kicked_members = passLog[1]
                     /\ kicked_members = EvictOnePass(members0, cap))
    /\ <>(modeOff \/ evPc = "done")

SimulationOnePassWitness ==
    /\ evPc = "done"
    /\ ~modeOff
    /\ Len(members0) = 5
    /\ cap = 2
    /\ Len(passLog) = 1
    /\ Len(kicked_members) = 2

\* C10: the result is the concatenation of the outputs of the passes in
\* call order; no pass follows an empty pass; with test mode off a run over
\* M members with cap N makes ceil(M / N) + 1 calls and returns the members
\* in their removal order
EvictAllConcatenatesPasses ==
    /\ \A i \in 1..(Len(passLog) - 1) : passLog[i] # <<>>
    /\ evPc \in {"report", "done"}
       => /\ kicked_members = Flatten(passLog)
          /\ ~modeOn
             => /\ Len(passLog) = CeilDiv(Len(members0), cap) + 1
                /\ passLog[Len(passLog)] = <<>>
                /\ kicked_members = members0

\* cap 2, members [3,2,1,5,4]: passes [3,2], [1,5], [4], []
EvictAllConcatenatesPassesWitness ==
    /\ evPc = "done"
    /\ ~modeOn
    /\ cap = 2
    /\ members0 = <<3, 2, 1, 5, 4>>
    /\ passLog = << <<3, 2>>, <<1, 5>>, <<4>>, <<>> >>
    /\ kicked_members = <<3, 2, 1, 5, 4>>

\* C11: once a pass has raised PlatformError, the handler is out of its
\* loop with the error, no further pass is made, nothing more is removed,
\* and no completion message is sent, whatever was accumulated before
CompletedMsgs ==
    {"REMOVE_NO_PAYMENT_COMPLETED_CMD", "REMOVE_NO_USERNAME_COMPLETED_CMD"}

PlatformErrorAbortsLoop ==
    /\ [](raised => evPc = "failed" /\ reply.msg \notin CompletedMsgs)
    /\ [][raised => UNCHANGED <<passLog, members, kicked_members, reply>>]_vars

\* the third pass has raised after two passes that kicked members
PlatformErrorAbortsLoopWitness ==
    /\ raised
    /\ evPc = "failed"
    /\ Len(passLog) = 2
    /\ Len(kicked_members) = 4
    /\ cap = 2
    /\ Len(members) < Len(members0) - 4

\* the chats of the log records of the running task, in record order
Handled == [i \in 1..Len(tickLog) |-> tickLog[i][1]]

\* the chats the iterator of the running task has still to yield
Remaining == SubSeq(chats, tickIdx, Len(chats))

\* the chats of the running task: those it has handled and those it is
\* going to handle; the chat list itself when the task begins
TickPlan == Handled \o Remaining

\* C12: a PlatformError on one chat does not stop the tick: the task ends
\* only when its iterator is exhausted, so the chats after the failing one
\* are still processed
TickSurvivesChatError ==
    [][(tickPc = "run" /\ tickPc' = "idle") => tickIdx > Len(chats)]_vars

\* C13: a tick that runs to its end with test mode off leaves no member
\* with an expired payment in any chat it handled, also in a chat that had
\* more such members than the cap
TickEvictsEveryMatch ==
    [][(tickPc = "run" /\ tickPc' = "idle" /\ tickIdx > Len(chats)
        /\ ~test_mode)
       => \A i \in 1..Len(tickLog) : expired[tickLog[i][1]] = 0]_vars

\* C14: a tick handles the chat list as it was when the tick began: the
\* chats of the running task are those of the list at its begin, and no
\* step taken while it runs adds a chat to them or drops one
TickUsesSnapshot ==
    /\ [][(tickPc = "idle" /\ tickPc' = "run") => TickPlan' = chats]_vars
    /\ [][(tickPc = "run" /\ tickPc' = "run") => TickPlan' = TickPlan]_vars

\* C16: Stop leaves status Stopped and does not touch a running tick, and
\* a tick running while the scheduler is stopped keeps its chats and ends
\* only when it has handled all of them
StopKeepsRunningTick ==
    /\ [][(tickPc = "run" /\ status = "Running" /\ status' = "Stopped")
          => UNCHANGED <<tickPc, tickIdx, tickLog>>]_vars
    /\ [][(tickPc = "run" /\ status = "Stopped")
          => \/ tickPc' = "run" /\ TickPlan' = TickPlan
             \/ tickPc' = "idle" /\ tickIdx > Len(chats)]_vars

\* C15: concurrent calls of Start and Stop are linearizable: the write of
\* every call is a step of the operation done in one piece on the state of
\* that instant, with the outcome the call returns, so two Starts on a
\* stopped scheduler or two Stops on a running one never both succeed; the
\* timer never holds more than one periodic job
StartStopLinearizable ==
    /\ [](Len(jobs) <= 1 /\ (Len(jobs) = 1) = IsRunning)
    /\ [][\A t \in Callers :
             (calls[t].pc = "write" /\ calls'[t].pc = "release")
             => CASE calls[t].name = "Start" ->
                         Start(calls[t].arg, calls'[t].res)
                  [] calls[t].name = "Stop" -> Stop(calls'[t].res)
                  [] OTHER -> TRUE]_vars

\* two Starts are in progress on a scheduler that was stopped: one has
\* succeeded and is about to return, the other is waiting for the lock
StartStopLinearizableWitness ==
    /\ calls["c1"].name = "Start"
    /\ calls["c1"].arg = MaxPeriod
    /\ calls["c1"].pc = "acquire"
    /\ calls["c1"].n = 1
    /\ calls["c2"].name = "Start"
    /\ calls["c2"].arg = MaxPeriod
    /\ calls["c2"].pc = "release"
    /\ calls["c2"].res = "ok"
    /\ calls["c2"].n = 1
    /\ period = <<MaxPeriod>>

\* C17: the periodic task never holds the scheduler lock, so every call of
\* an operation of the scheduler returns, also when a tick is in a call of
\* the platform and stays there for ever
LockNotHeldInTick ==
    /\ [](lock \in Callers \cup {NoOwner})
    /\ \A t \in Callers : (calls[t].pc # "idle") ~> (calls[t].pc = "idle")

\* Stop has done its write and is about to return while a tick is between
\* the first and the second chat of the list
LockNotHeldInTickWitness ==
    /\ tickPc = "run"
    /\ Len(tickLog) = 1
    /\ Len(chats) = 2
    /\ calls["c2"].name = "Stop"
    /\ calls["c2"].pc = "release"
    /\ calls["c2"].res = "ok"
    /\ lock = "c2"

\* C18: the start and stop commands and every step of the periodic task
\* leave the chat list as it is, whatever their outcome; the add-chat,
\* remove-chat and remove-all-chats commands leave the status and the
\* period as they are; so a start finds the chats enrolled before
FrameEffects ==
    [][/\ (\/ \E params \in StartParams : PaymentTaskStartCmd(params)
           \/ PaymentTaskStopCmd
           \/ TickBegin
           \/ TickChat
           \/ TickChatRaises
           \/ TickEnd) => chats' = chats
       /\ (status' # status \/ period' # period) => chats' = chats
       /\ (\/ \E chat \in ChatIds, private \in BOOLEAN :
                 PaymentTaskAddChatCmd(chat, private)
           \/ \E chat \in ChatIds, private \in BOOLEAN :
                 PaymentTaskRemoveChatCmd(chat, private)
           \/ PaymentTaskRemoveAllChatsCmd) => UNCHANGED <<status, period>>
       /\ chats' # chats => UNCHANGED <<status, period>>]_vars

\* the start command has started the scheduler; the two chats enrolled
\* before it are in the list and a tick has handled the first of them
FrameEffectsWitness ==
    /\ reply = Msg("PAYMENT_TASK_START_OK_CMD", <<MaxPeriod>>)
    /\ IsRunning
    /\ chats = <<2, 1>>
    /\ tickPc = "run"
    /\ tickIdx = 2

\* C19: the loop of a remove command reads the test-mode flag after each
\* pass that kicked somebody, as the flag is at that moment: the loop ends
\* after a pass exactly when the pass kicked nobody or the flag is on now,
\* whatever the flag was before, and it ends with the members of that pass
\* added to those accumulated so far
FlagReadAfterEachPass ==
    [][(evPc = "check" /\ evPc' # "check")
       => /\ (evPc' = "report") = (~Any(curr_kicked_members) \/ test_mode)
          /\ (evPc' = "call") = (Any(curr_kicked_members) /\ ~test_mode)
          /\ kicked_members' = kicked_members \o curr_kicked_members
          /\ test_mode' = test_mode]_vars

\* a run begun in test mode: the flag was turned off before the loop read
\* it after the first pass, so a second pass was made and removed members;
\* the flag was turned on again before the loop read it after that pass,
\* so the loop ended with members left in the chat
FlagReadAfterEachPassWitness ==
    /\ evPc = "done"
    /\ toggles = 2
    /\ test_mode
    /\ Len(passLog) = 2
    /\ passLog[1] # <<>>
    /\ passLog[1] = passLog[2]
    /\ kicked_members = passLog[1] \o passLog[2]
    /\ Len(members) = Len(members0) - cap
    /\ Len(members) > 0

\* C20: the message of the task-info command shows the scheduler as it was
\* at one instant: when it says that the task is running it carries the
\* period of a run, never an absent period
InfoConsistentView ==
    (reply.msg = "PAYMENT_TASK_INFO_STATE_CMD"
     /\ reply.args[1] = "TASK_RUNNING_MSG")
    => reply.args[2] \in {<< <<p>> >> : p \in 1..MaxPeriod}

====
